---- MODULE Spec2Model ----
(***************************************************************************)
(* Model of generate_with_wfc.py: create_mesh_from_cfg and solve_with_wfc. *)
(*                                                                         *)
(* One generation run is a state machine whose program counter `pc` walks  *)
(* through the statements of create_mesh_from_cfg: the base solve, the     *)
(* optional overhanging solve, the history set-up, the cell loop, the      *)
(* recentring and the export.  An uncaught Python exception ends the run   *)
(* in pc = "failed" with `err` naming it.                                  *)
(*                                                                         *)
(* Meshes.  A mesh fragment is the sequence of its vertices <<x, y, z>>.   *)
(* Trimesh concatenation keeps the vertex blocks of its operands in order, *)
(* so result_mesh is kept as the sequence of the blocks that were added to *)
(* it.  Coordinates are integers; every input coordinate and tile          *)
(* dimension is even, so that bounding-box midpoints are integers too.     *)
(*                                                                         *)
(* Object identity.  Python meshes are mutable objects.  A mesh reference  *)
(* is a record [owner, verts]: owner names the catalog entry whose master  *)
(* mesh the reference aliases, or Fresh for an object of its own.          *)
(* apply_translation writes through the reference.                         *)
(***************************************************************************)
EXTENDS Integers, Sequences, FiniteSets, TLC

VARIABLES
    cfg,                            \* argument cfg: [name, dim]
    overhanging_cfg,                \* argument overhanging_cfg, or NoCfg
    shape,                          \* argument shape: <<H, W>>
    initial_tile_name,              \* argument initial_tile_name
    overhanging_initial_tile_name,  \* argument overhanging_initial_tile_name
    enable_history,                 \* argument enable_history
    solver_base,                    \* what the solver answers for the base layer
    solver_over,                    \* what the solver answers for the overhanging layer
    pc,                             \* position in create_mesh_from_cfg
    err,                            \* the exception that ended the run, or "none"
    solver_runs,                    \* number of WFCSolver.run invocations so far
    tiles,                          \* local tiles: key -> [name, mesh]
    wave,                           \* local wave: [shape, at]
    wave_order,                     \* local wave_order
    wave_names,                     \* local wave_names: sequence of names
    over_tiles,                     \* local over_tiles
    over_wave,                      \* local over_wave
    over_wave_names,                \* local over_wave_names
    pending,                        \* cells the loops of lines 88-89 have not visited
    result_mesh,                    \* local result_mesh: sequence of fragments
    history,                        \* files present under the history directory
    exported                        \* content of the file mesh_dir/mesh_name

vars == <<cfg, overhanging_cfg, shape, initial_tile_name,
          overhanging_initial_tile_name, enable_history, solver_base,
          solver_over, pc, err, solver_runs, tiles, wave, wave_order,
          wave_names, over_tiles, over_wave, over_wave_names, pending,
          result_mesh, history, exported>>

args == <<cfg, overhanging_cfg, shape, initial_tile_name,
          overhanging_initial_tile_name, enable_history, solver_base,
          solver_over>>

(***************************************************************************)
(* Bounds of the model.                                                    *)
(***************************************************************************)
MaxCells == 4       \* a grid has at most MaxCells cells
MaxCellsAny == 3    \* the same, for the order-free composition SpecAny

(***************************************************************************)
(* Values.                                                                 *)
(***************************************************************************)
Range(s) == {s[i] : i \in 1..Len(s)}

Fresh == <<"fresh", "">>

NoCfg == [name |-> "None", dim |-> <<0, 0>>]

NoGrid == [shape |-> <<0, 0>>, at |-> <<>>]

NoTiles == <<>>

NotWritten == [written |-> FALSE, mesh |-> <<>>]

ShapesUpTo(n) == {s \in (1..n) \X (1..n) : s[1] * s[2] <= n}

Shapes == ShapesUpTo(MaxCells)

Cells(s) == (0..(s[1] - 1)) \X (0..(s[2] - 1))

Orders == {"ascending", "descending"}

BaseCfgs == {[name |-> "indoor", dim |-> <<2, 2>>],
             [name |-> "terrain", dim |-> <<4, 2>>]}

OverCfgs == {[name |-> "overhanging", dim |-> <<6, 6>>]}

(***************************************************************************)
(* The tile catalog, in the order create_mesh_pattern yields its entries.  *)
(* Each entry has the key it is stored under, the name its tile registers  *)
(* with the solver, and the tile's master mesh.  In the "terrain" catalog  *)
(* one tile registers under a name that is not its key, so that the name   *)
(* table can hold a name the catalog has no entry for.  The tiles of a     *)
(* base catalog have vertices; "walls_empty" has the empty mesh.           *)
(***************************************************************************)
create_mesh_pattern(c) ==
    CASE c.name = "indoor" ->
           <<[key |-> "floor", name |-> "floor",
              mesh |-> <<<<0, 0, 0>>, <<2, 2, 0>>>>],
             [key |-> "wall", name |-> "wall",
              mesh |-> <<<<0, 0, 0>>, <<2, 0, 4>>>>]>>
      [] c.name = "terrain" ->
           <<[key |-> "floor", name |-> "floor",
              mesh |-> <<<<0, 0, 0>>, <<4, 2, 0>>>>],
             [key |-> "ramp", name |-> "slope",
              mesh |-> <<<<0, 0, 0>>, <<4, 2, 2>>>>]>>
      [] c.name = "overhanging" ->
           <<[key |-> "walls_empty", name |-> "walls_empty",
              mesh |-> <<>>],
             [key |-> "roof", name |-> "roof",
              mesh |-> <<<<0, 0, 6>>, <<2, 2, 6>>>>]>>
      [] OTHER -> <<>>

\* The dict `tiles`: key -> tile.
DictOf(entries) ==
    [k \in {entries[i].key : i \in 1..Len(entries)} |->
        LET i == CHOOSE j \in 1..Len(entries) : entries[j].key = k
        IN  [name |-> entries[i].name, mesh |-> entries[i].mesh]]

\* wfc_solver.names after register_tile(*tile.get_dict_tile()) on tiles.values().
RegisteredNames(entries) == [i \in 1..Len(entries) |-> entries[i].name]

(***************************************************************************)
(* The solver, a black box.  Its answer is fixed by solver_base and        *)
(* solver_over; an initial tile that was never registered is rejected.     *)
(* An answer is a grid of tile indices with the order of resolution, or    *)
(* SolveIncomplete when the step budget ran out.  The grids are not        *)
(* restricted to those that hold the initial tile at the anchored cell.    *)
(***************************************************************************)
Grids(s, n) == {[shape |-> s, at |-> f] : f \in [Cells(s) -> 0..(n - 1)]}

Unasked == [status |-> "unasked", wave |-> NoGrid, order |-> "ascending"]

SolverAnswers(shapes, n, orders) ==
    {[status |-> "SolveIncomplete", wave |-> NoGrid, order |-> "ascending"]}
    \cup {[status |-> "ok", wave |-> g, order |-> o] :
            g \in UNION {Grids(s, n) : s \in shapes}, o \in orders}

SolverRun(names, init_tiles, answer) ==
    IF init_tiles[1] \in Range(names)
    THEN answer
    ELSE [status |-> "ConfigurationError", wave |-> NoGrid, order |-> "ascending"]

(***************************************************************************)
(* Mesh primitives.                                                        *)
(***************************************************************************)
Translate(verts, off) ==
    [i \in 1..Len(verts) |->
        <<verts[i][1] + off[1], verts[i][2] + off[2], verts[i][3] + off[3]>>]

\* tiles[key].get_mesh(): a reference to the master mesh of the tile.
get_mesh(dict, layer, key) == [owner |-> <<layer, key>>, verts |-> dict[key].mesh]

\* Mutant of Copy: the .copy() is left out, the reference aliases the master.
CopyAlias(m) == m

\* mesh.copy(): a new object with the same vertices.
Copy(m) == [owner |-> Fresh, verts |-> m.verts]

\* Mutant of MeshAdd: `mesh = over_mesh` in place of `mesh += over_mesh`.
MeshAddReplace(a, b) == [owner |-> Fresh, verts |-> b.verts]

\* a + b (Trimesh.__add__), which `a += b` rebinds a to: a new object.
MeshAdd(a, b) == [owner |-> Fresh, verts |-> a.verts \o b.verts]

\* dict after a translation was applied through reference m of `layer`.
StoreBack(dict, layer, m) ==
    IF m.owner # Fresh /\ m.owner[1] = layer
    THEN [dict EXCEPT ![m.owner[2]].mesh = m.verts]
    ELSE dict

(***************************************************************************)
(* The state at the call of create_mesh_from_cfg.  The arguments and the   *)
(* solver's answers are drawn from bounded sets.  The base grid has the    *)
(* requested shape; the source checks neither grid's shape, and the grid   *)
(* of the overhanging layer ranges over every shape, unless `aligned`.  An *)
(* answer that is never asked for (the layer is absent, or an initial tile *)
(* is rejected before) is Unasked.                                         *)
(***************************************************************************)
InitialTileNames == {"floor", "lava"}

OverhangingInitialTileNames == {"walls_empty", "lava"}

InitArgs(shapes, aligned) ==
    /\ cfg \in BaseCfgs
    /\ overhanging_cfg \in OverCfgs \cup {NoCfg}
    /\ shape \in shapes
    /\ initial_tile_name \in InitialTileNames
    /\ overhanging_initial_tile_name \in
         IF overhanging_cfg = NoCfg THEN {"walls_empty"}
         ELSE OverhangingInitialTileNames
    /\ enable_history \in BOOLEAN
    /\ solver_base \in
         IF initial_tile_name \in Range(RegisteredNames(create_mesh_pattern(cfg)))
         THEN SolverAnswers({shape}, Len(create_mesh_pattern(cfg)), Orders)
         ELSE {Unasked}
    /\ solver_over \in
         IF /\ overhanging_cfg # NoCfg
            /\ solver_base.status = "ok"
            /\ overhanging_initial_tile_name \in
                 Range(RegisteredNames(create_mesh_pattern(overhanging_cfg)))
         THEN SolverAnswers(IF aligned THEN {shape} ELSE Shapes,
                            Len(create_mesh_pattern(overhanging_cfg)),
                            {"ascending"})
         ELSE {Unasked}

InitLocals ==
    /\ pc = "solve_base"
    /\ err = "none"
    /\ solver_runs = 0
    /\ tiles = NoTiles
    /\ wave = NoGrid
    /\ wave_order = "unset"
    /\ wave_names = <<>>
    /\ over_tiles = NoTiles
    /\ over_wave = NoGrid
    /\ over_wave_names = <<>>
    /\ pending = {}
    /\ result_mesh = <<>>
    /\ history = {}
    /\ exported = NotWritten

Init == InitArgs(Shapes, FALSE) /\ InitLocals

(***************************************************************************)
(* Raising an exception: the run ends, the locals keep their values.       *)
(***************************************************************************)
\* Mutant of Raise: a handler that exports what was composed so far.
RaiseAfterExport(e) ==
    /\ pc' = "failed"
    /\ err' = e
    /\ exported' = [written |-> TRUE, mesh |-> result_mesh]

Raise(e) ==
    /\ pc' = "failed"
    /\ err' = e
    /\ exported' = exported

\* Line 32: init_tiles, the initial tile anchored at the centre of the grid.
init_tiles(name) == <<name, <<shape[1] \div 2, shape[2] \div 2>>>>

\* Where control goes once the layers are solved (lines 72 and 86).
AfterSolve == IF enable_history THEN "history" ELSE "compose"

(***************************************************************************)
(* Line 64: solve_with_wfc(cfg, shape, initial_tile_name), lines 18-36.    *)
(***************************************************************************)
SolveBase ==
    /\ pc = "solve_base"
    /\ LET entries == create_mesh_pattern(cfg)
           names == RegisteredNames(entries)
           answer == SolverRun(names, init_tiles(initial_tile_name), solver_base)
       IN  /\ solver_runs' = solver_runs + 1
           /\ IF answer.status = "ok"
              THEN /\ tiles' = DictOf(entries)
                   /\ wave' = answer.wave
                   /\ wave_order' = answer.order
                   /\ wave_names' = names
                   /\ pending' = Cells(answer.wave.shape)
                   /\ pc' = IF overhanging_cfg # NoCfg THEN "solve_over"
                            ELSE AfterSolve
                   /\ UNCHANGED <<err, exported>>
              ELSE /\ Raise(answer.status)
                   /\ UNCHANGED <<tiles, wave, wave_order, wave_names, pending>>
    /\ UNCHANGED <<args, over_tiles, over_wave, over_wave_names, result_mesh,
                   history>>

(***************************************************************************)
(* Lines 66-69: the overhanging layer, solved after the base layer.        *)
(***************************************************************************)
SolveOver ==
    /\ pc = "solve_over"
    /\ LET entries == create_mesh_pattern(overhanging_cfg)
           names == RegisteredNames(entries)
           answer == SolverRun(names, init_tiles(overhanging_initial_tile_name),
                               solver_over)
       IN  /\ solver_runs' = solver_runs + 1
           /\ IF answer.status = "ok"
              THEN /\ over_tiles' = DictOf(entries)
                   /\ over_wave' = answer.wave
                   /\ over_wave_names' = names
                   /\ pc' = AfterSolve
                   /\ UNCHANGED <<err, exported>>
              ELSE /\ Raise(answer.status)
                   /\ UNCHANGED <<over_tiles, over_wave, over_wave_names>>
    /\ UNCHANGED <<args, tiles, wave, wave_order, wave_names, pending,
                   result_mesh, history>>

(***************************************************************************)
(* Lines 72-82: the raw arrays are saved and the directories made.  A      *)
(* write that fails raises; the files written before it stay.              *)
(***************************************************************************)
\* A history file is named <<directory, tile index, y, x, name>>; the two
\* array files lie in the history directory itself and carry no cell.
ArrayFile(name) == <<"", 0, 0, 0, name>>

SaveOutcomes == {"ok", "wave_fails", "wave_order_fails"}

SaveHistory ==
    /\ pc = "history"
    /\ \E io \in SaveOutcomes :
         /\ history' =
              CASE io = "wave_fails" -> history
                [] io = "wave_order_fails" -> history \cup {ArrayFile("wave.npy")}
                [] OTHER -> history \cup {ArrayFile("wave.npy"),
                                          ArrayFile("wave_order.npy")}
         /\ IF io = "ok"
            THEN /\ pc' = "compose"
                 /\ UNCHANGED <<err, exported>>
            ELSE Raise("HistoryWriteError")
    /\ UNCHANGED <<args, solver_runs, tiles, wave, wave_order, wave_names,
                   over_tiles, over_wave, over_wave_names, pending, result_mesh>>

(***************************************************************************)
(* Lines 86-109: the cell loop.  `pending` holds the cells the two nested  *)
(* range loops have not visited yet; the loops start at line 88 with every *)
(* cell of wave pending and visit them in row-major order.                 *)
(***************************************************************************)
RowMajorFirst(S) ==
    CHOOSE c \in S : \A d \in S : c[1] < d[1] \/ (c[1] = d[1] /\ c[2] <= d[2])

OverPresent == overhanging_cfg # NoCfg

\* wave_names[wave[y, x]] and over_wave_names[over_wave[y, x]]; c = <<y, x>>.
BaseName(c) == wave_names[wave.at[c] + 1]

OverName(c) == over_wave_names[over_wave.at[c] + 1]

\* The exception lines 90 and 93 raise for cell c, or "none".
CellError(c) ==
    CASE BaseName(c) \notin DOMAIN tiles -> "MissingTileFragment"
      [] BaseName(c) \in DOMAIN tiles /\ OverPresent
           /\ c \notin Cells(over_wave.shape) -> "IndexError"
      [] BaseName(c) \in DOMAIN tiles /\ OverPresent
           /\ c \in Cells(over_wave.shape)
           /\ OverName(c) \notin DOMAIN over_tiles -> "MissingTileFragment"
      [] OTHER -> "none"

\* Lines 90-94: the reference `mesh` holds before the translation.
Merged(c) ==
    LET mesh == Copy(get_mesh(tiles, "base", BaseName(c)))
    IN  IF OverPresent
        THEN MeshAdd(mesh, Copy(get_mesh(over_tiles, "over", OverName(c))))
        ELSE mesh

\* Mutants of xy_offset: the sign of the row offset is lost; the column index
\* is used for both axes; the offset is derived from the number of fragments
\* accumulated so far instead of the cell's own indices.
xy_offset_positive_y(c) == <<c[2] * cfg.dim[1], c[1] * cfg.dim[2], 0>>

xy_offset_x_twice(c) == <<c[2] * cfg.dim[1], -(c[2] * cfg.dim[2]), 0>>

xy_offset_running(c) ==
    <<(Len(result_mesh) % wave.shape[2]) * cfg.dim[1],
      -((Len(result_mesh) \div wave.shape[2]) * cfg.dim[2]), 0>>

\* Line 100: xy_offset for cell c = <<y, x>>.
xy_offset(c) == <<c[2] * cfg.dim[1], -(c[1] * cfg.dim[2]), 0>>

\* Line 101: mesh.apply_translation(xy_offset), in place.
Placed(c) ==
    LET m == Merged(c)
    IN  [m EXCEPT !.verts = Translate(m.verts, xy_offset(c))]

\* The names of the history files of cell c (lines 98 and 105).
PartFile(c) == <<"parts", wave.at[c], c[1], c[2], BaseName(c)>>

TranslatedPartFile(c) ==
    <<"translated_parts", wave.at[c], c[1], c[2], BaseName(c)>>

ExportOutcomes ==
    IF enable_history THEN {"ok", "part_fails", "translated_part_fails"}
    ELSE {"ok"}

\* One iteration of the loop body, for cell c.
ComposeStep(c) ==
    IF CellError(c) # "none"
    THEN /\ Raise(CellError(c))
         /\ UNCHANGED <<tiles, over_tiles, pending, result_mesh, history>>
    ELSE \E io \in ExportOutcomes :
           LET p == Placed(c)
           IN  /\ history' =
                    CASE ~enable_history \/ io = "part_fails" -> history
                      [] enable_history /\ io = "translated_part_fails" ->
                           history \cup {PartFile(c)}
                      [] OTHER ->
                           history \cup {PartFile(c), TranslatedPartFile(c)}
               /\ tiles' = IF io = "part_fails" THEN tiles
                           ELSE StoreBack(tiles, "base", p)
               /\ over_tiles' = IF io = "part_fails" THEN over_tiles
                                ELSE StoreBack(over_tiles, "over", p)
               /\ IF io = "ok"
                  THEN /\ result_mesh' = Append(result_mesh, p.verts)
                       /\ pending' = pending \ {c}
                       /\ pc' = IF pending \ {c} = {} THEN "recenter"
                                ELSE "compose"
                       /\ UNCHANGED <<err, exported>>
                  ELSE /\ Raise("HistoryWriteError")
                       /\ UNCHANGED <<pending, result_mesh>>

ComposeCell ==
    /\ pc = "compose"
    /\ ComposeStep(RowMajorFirst(pending))
    /\ UNCHANGED <<args, solver_runs, wave, wave_order, wave_names, over_wave,
                   over_wave_names>>

(***************************************************************************)
(* Lines 111-116: the mesh is moved so that the midpoint of its bounding   *)
(* box lies on the vertical axis.  A mesh without vertices has no bounds,  *)
(* and taking their mean raises.                                           *)
(***************************************************************************)
Min(S) == CHOOSE a \in S : \A b \in S : a <= b

Max(S) == CHOOSE a \in S : \A b \in S : a >= b

\* The k-th coordinates of the vertices of the mesh.
Coords(mesh, k) ==
    UNION {{mesh[i][j][k] : j \in 1..Len(mesh[i])} : i \in 1..Len(mesh)}

\* Line 111: bounds, the corners <<min, max>> of the bounding box.
Bounds(mesh) ==
    <<<<Min(Coords(mesh, 1)), Min(Coords(mesh, 2)), Min(Coords(mesh, 3))>>,
      <<Max(Coords(mesh, 1)), Max(Coords(mesh, 2)), Max(Coords(mesh, 3))>>>>

\* Line 113: np.mean(bbox, axis=0).
BoundsMean(bbox) ==
    <<(bbox[1][1] + bbox[2][1]) \div 2,
      (bbox[1][2] + bbox[2][2]) \div 2,
      (bbox[1][3] + bbox[2][3]) \div 2>>

\* Mutant of Center: line 114 is left out.
CenterKeepZ(mesh) == BoundsMean(Bounds(mesh))

\* Lines 113-114: center, with center[2] = 0.0.
Center(mesh) == [BoundsMean(Bounds(mesh)) EXCEPT ![3] = 0]

\* Line 116: result_mesh.apply_translation(-center).
Recentred(mesh) ==
    LET center == Center(mesh)
    IN  [i \in 1..Len(mesh) |->
           Translate(mesh[i], <<-center[1], -center[2], -center[3]>>)]

Recenter ==
    /\ pc = "recenter"
    /\ IF Coords(result_mesh, 1) = {}
       THEN /\ Raise("EmptyMeshError")
            /\ UNCHANGED result_mesh
       ELSE /\ result_mesh' = Recentred(result_mesh)
            /\ pc' = "export"
            /\ UNCHANGED <<err, exported>>
    /\ UNCHANGED <<args, solver_runs, tiles, wave, wave_order, wave_names,
                   over_tiles, over_wave, over_wave_names, pending, history>>

(***************************************************************************)
(* Line 119: result_mesh.export(save_name).                                *)
(***************************************************************************)
Export ==
    /\ pc = "export"
    /\ exported' = [written |-> TRUE, mesh |-> result_mesh]
    /\ pc' = "done"
    /\ UNCHANGED <<args, err, solver_runs, tiles, wave, wave_order, wave_names,
                   over_tiles, over_wave, over_wave_names, pending, result_mesh,
                   history>>

Next ==
    \/ SolveBase
    \/ SolveOver
    \/ SaveHistory
    \/ ComposeCell
    \/ Recenter
    \/ Export

Spec == Init /\ [][Next]_vars

(***************************************************************************)
(* The cell loop with its iterations taken in any order: each iteration is *)
(* the loop body of lines 90-108, run for a cell that is still pending,    *)
(* and the accumulation of line 108 is the one step that ends it.  The     *)
(* grids have at most MaxCellsAny cells, the overhanging grid has the      *)
(* shape of the base grid.                                                 *)
(***************************************************************************)
InitAny == InitArgs(ShapesUpTo(MaxCellsAny), TRUE) /\ InitLocals

ComposeAnyCell ==
    /\ pc = "compose"
    /\ \E c \in pending : ComposeStep(c)
    /\ UNCHANGED <<args, solver_runs, wave, wave_order, wave_names, over_wave,
                   over_wave_names>>

NextAny ==
    \/ SolveBase
    \/ SolveOver
    \/ SaveHistory
    \/ ComposeAnyCell
    \/ Recenter
    \/ Export

SpecAny == InitAny /\ [][NextAny]_vars

(***************************************************************************)
(* What the claims are stated over.                                        *)
(***************************************************************************)
\* The master meshes as create_mesh_pattern made them.
BaseMaster(key) == DictOf(create_mesh_pattern(cfg))[key].mesh

OverMaster(key) == DictOf(create_mesh_pattern(overhanging_cfg))[key].mesh

\* The cells of the base grid, in row-major order.
CellAt(i) == <<(i - 1) \div wave.shape[2], (i - 1) % wave.shape[2]>>

NumCells == wave.shape[1] * wave.shape[2]

\* vertex v moved by (x * dim_x, -y * dim_y, 0) for cell c = <<y, x>>.
MovedTo(v, c) == <<v[1] + c[2] * cfg.dim[1], v[2] - c[1] * cfg.dim[2], v[3]>>

\* The fragment cell c is to contribute: its base mesh, followed by its
\* overhanging mesh when that layer is present, moved to the cell.
ExpectedFragment(c) ==
    LET all == BaseMaster(BaseName(c)) \o
               (IF OverPresent THEN OverMaster(OverName(c)) ELSE <<>>)
    IN  [i \in 1..Len(all) |-> MovedTo(all[i], c)]

\* The fragment of cell c when only the base layer is composed.
BaseOnlyFragment(c) ==
    LET all == BaseMaster(BaseName(c))
    IN  [i \in 1..Len(all) |-> MovedTo(all[i], c)]

BadInitialTile ==
    \/ initial_tile_name \notin Range(RegisteredNames(create_mesh_pattern(cfg)))
    \/ /\ OverPresent
       /\ overhanging_initial_tile_name \notin
            Range(RegisteredNames(create_mesh_pattern(overhanging_cfg)))

ShapeMismatch ==
    /\ OverPresent
    /\ over_wave.shape # <<0, 0>>
    /\ over_wave.shape # wave.shape

(***************************************************************************)
(* C1.  When the cell loop ends, result_mesh holds one fragment per cell   *)
(* of the H x W base grid, H * W in all, the fragment of cell (y, x) being *)
(* the cell's mesh moved by (x * dim_x, -y * dim_y, 0); and while the loop *)
(* runs, a step only ever appends to result_mesh.                          *)
(***************************************************************************)
C1_AllCellsPlaced ==
    pc = "recenter" =>
        /\ Len(result_mesh) = NumCells
        /\ \A i \in 1..NumCells : result_mesh[i] = ExpectedFragment(CellAt(i))

C1_AppendOnly ==
    pc = "compose" =>
        /\ Len(result_mesh') >= Len(result_mesh)
        /\ SubSeq(result_mesh', 1, Len(result_mesh)) = result_mesh

\* C1: one placed fragment per cell when the loop ends, and the loop only
\* appends.
C1_OneFragmentPerCell == [](C1_AllCellsPlaced) /\ [][C1_AppendOnly]_vars

C1_Witness ==
    /\ pc = "recenter"
    /\ wave.shape = <<2, 2>>
    /\ OverPresent
    /\ Len(result_mesh) = 4

(***************************************************************************)
(* C2.  When the overhanging grid's shape differs from the base grid's,    *)
(* no cell is ever composed, the run never gets past the cell loop, and it *)
(* does not end in an index error.                                         *)
(***************************************************************************)
C2_ShapeMismatchRejected ==
    ShapeMismatch =>
        /\ result_mesh = <<>>
        /\ pc \notin {"recenter", "export", "done"}
        /\ err # "IndexError"

(***************************************************************************)
(* C3.  When a layer's initial tile name is not registered, the solver is  *)
(* never run, and a run that has failed failed with ConfigurationError.    *)
(***************************************************************************)
C3_BadInitialTileRejectedBeforeSolve ==
    BadInitialTile =>
        /\ solver_runs = 0
        /\ pc = "failed" => err = "ConfigurationError"

(***************************************************************************)
(* C4.  A run that meets a tile name without catalog entry, or whose       *)
(* solver does not complete, ends failed with the final mesh file          *)
(* unwritten; the file is written only once every one of the H * W cells   *)
(* has been accumulated, each of them resolved in the catalog.             *)
(***************************************************************************)
C4_NoPartialSuccess ==
    /\ err \in {"MissingTileFragment", "SolveIncomplete"} =>
          pc = "failed" /\ ~exported.written
    /\ pc = "failed" => ~exported.written
    /\ exported.written =>
          /\ pending = {}
          /\ Len(exported.mesh) = NumCells
          /\ \A c \in Cells(wave.shape) : BaseName(c) \in DOMAIN tiles
          /\ solver_base.status = "ok"
          /\ OverPresent => solver_over.status = "ok"

C4_Witness ==
    /\ pc = "failed"
    /\ err = "MissingTileFragment"
    /\ result_mesh # <<>>
    /\ ~exported.written

(***************************************************************************)
(* C5.  A history file that cannot be written does not end the run.        *)
(***************************************************************************)
C5_HistoryFailureTolerated == ~(pc = "failed" /\ err = "HistoryWriteError")

(***************************************************************************)
(* C6.  From the solve on, the master mesh of every tile, of the base and  *)
(* of the overhanging catalog, is the mesh create_mesh_pattern gave it.    *)
(***************************************************************************)
C6_MastersUnchanged ==
    /\ DOMAIN tiles # {} => tiles = DictOf(create_mesh_pattern(cfg))
    /\ DOMAIN over_tiles # {} =>
          over_tiles = DictOf(create_mesh_pattern(overhanging_cfg))

C6_Witness ==
    /\ pc = "done"
    /\ wave.shape = <<2, 2>>
    /\ \A c \in Cells(wave.shape) : BaseName(c) = "wall"

(***************************************************************************)
(* C7.  The recentring step leaves every Z coordinate as it was, brings    *)
(* the X/Y midpoint of the bounding box to the origin, and recentring its  *)
(* result once more changes nothing.                                       *)
(***************************************************************************)
C7_RecentreStep ==
    (pc = "recenter" /\ pc' = "export") =>
        /\ Len(result_mesh') = Len(result_mesh)
        /\ \A i \in 1..Len(result_mesh) :
              /\ Len(result_mesh'[i]) = Len(result_mesh[i])
              /\ \A j \in 1..Len(result_mesh[i]) :
                    result_mesh'[i][j][3] = result_mesh[i][j][3]
        /\ Min(Coords(result_mesh', 1)) + Max(Coords(result_mesh', 1)) = 0
        /\ Min(Coords(result_mesh', 2)) + Max(Coords(result_mesh', 2)) = 0
        /\ Recentred(result_mesh') = result_mesh'

\* C7: every recentring step preserves Z, centres X/Y and is idempotent.
C7_RecentringIdempotent == [][C7_RecentreStep]_vars

C7_Witness ==
    /\ pc = "export"
    /\ wave.shape = <<2, 2>>
    /\ result_mesh[1][1] # <<0, 0, 0>>
    /\ Max(Coords(result_mesh, 3)) > 0

(***************************************************************************)
(* C8.  A run without overhanging layer, and a run whose overhanging layer *)
(* has the base grid's shape and resolves every cell to a tile with the    *)
(* empty mesh, both place for each cell the cell's base fragment alone and *)
(* both export the recentred sequence of those fragments: the same mesh.   *)
(***************************************************************************)
NoOpOverhang ==
    /\ OverPresent
    /\ over_wave.shape = wave.shape
    /\ \A c \in Cells(wave.shape) : OverMaster(OverName(c)) = <<>>

\* C8: no overhanging layer and an all-empty overhanging layer compose alike.
C8_NoOverhangEquivalent ==
    (pc \in {"compose", "recenter", "done"} /\ (~OverPresent \/ NoOpOverhang)) =>
        /\ pc \in {"compose", "recenter"} =>
              \A i \in 1..Len(result_mesh) :
                  result_mesh[i] = BaseOnlyFragment(CellAt(i))
        /\ pc = "done" =>
              exported.mesh =
                  Recentred([i \in 1..NumCells |-> BaseOnlyFragment(CellAt(i))])

C8_Witness ==
    /\ pc = "done"
    /\ NoOpOverhang
    /\ wave.shape = <<2, 2>>

(***************************************************************************)
(* C9.  With the cells taken in any order, the loop ends with the same set *)
(* of placed fragments as the row-major loop: the expected fragment of     *)
(* every cell, whatever wave_order and enable_history are.                 *)
(***************************************************************************)
C9_OrderIndependent ==
    pc = "recenter" =>
        /\ Len(result_mesh) = NumCells
        /\ Range(result_mesh) = {ExpectedFragment(c) : c \in Cells(wave.shape)}

C9_Witness ==
    /\ pc = "recenter"
    /\ NumCells = 3
    /\ result_mesh[1] = ExpectedFragment(CellAt(3))
    /\ enable_history
    /\ wave_order = "descending"

(***************************************************************************)
(* C10.  The translations of two distinct cells of the grid differ, and    *)
(* the base and the overhanging vertices of a placed fragment are moved by *)
(* one and the same vector, (x * dim_x, -y * dim_y, 0) of the base config. *)
(***************************************************************************)
C10_PlacementInjectiveShared ==
    pc \in {"compose", "recenter"} =>
        /\ \A c1, c2 \in Cells(wave.shape) :
              c1 # c2 => xy_offset(c1) # xy_offset(c2)
        /\ \A i \in 1..Len(result_mesh) :
              LET c == CellAt(i)
                  off == <<c[2] * cfg.dim[1], -(c[1] * cfg.dim[2]), 0>>
              IN  result_mesh[i] =
                      Translate(BaseMaster(BaseName(c)), off) \o
                      (IF OverPresent
                       THEN Translate(OverMaster(OverName(c)), off)
                       ELSE <<>>)

C10_Witness ==
    /\ pc = "recenter"
    /\ wave.shape = <<2, 2>>
    /\ OverPresent
    /\ \A c \in Cells(wave.shape) : OverName(c) = "roof"

====
